---- MODULE Spec2Model ----
(***************************************************************************)
(* The webrecorder front-end development loop: the hot-reload Dev Server   *)
(* (webpack dev/hot middleware behind an Express listener) and the Client  *)
(* Bootstrap (client.js) that builds the store, hydrates the application   *)
(* into the mount element and re-renders on route-module updates.          *)
(*                                                                         *)
(* JavaScript values are modelled as follows.  A value that may be         *)
(* undefined is a record [set, val]; a Number is a double, computed with   *)
(* exact rounding.  Environment strings are sequences of one-character     *)
(* strings so that Number(string) is computed character by character.      *)
(***************************************************************************)
EXTENDS Integers, Sequences, FiniteSets, TLC

VARIABLES
    env,            \* process.env of the Dev Server: APP_HOST, FRONTEND_PORT
    spc,            \* position of the Dev Server script
    host,           \* const host
    port,           \* const port
    contentBase,    \* contentBase handed to webpack-dev-middleware
    listenCalls,    \* number of app.listen calls made
    pendingErr,     \* bind error not yet emitted on the server
    listeners,      \* HTTP listeners bound by the process
    log,            \* operator-facing log stream (stdout and stderr)
    buildHash,      \* number of recompilations done by the compiler
    channel,        \* notifications in flight on the streaming connection
    flags,          \* build flags and page globals seen by client.js
    cpc,            \* position of the client.js module body
    dest,           \* const dest
    headScripts,    \* script elements appended to document.head
    wrAppContainer, \* window.wrAppContainer
    store,          \* const store
    stores,         \* every store constructed during this page load
    ravenInstalled, \* whether Raven's global handler is installed
    renders,        \* history of renderApp calls: what each handed to
                    \* ReactDOM.hydrate (render props, store, container)
    subscribed,     \* modules with a module.hot.accept handler
    installedRoutes,\* content of ./baseRoute in the module registry
    dndFlag,        \* window.__isReactDndBackendSetUp
    received        \* notifications delivered to this page

svars == <<env, spc, host, port, contentBase, listenCalls, pendingErr,
           listeners, log, buildHash, channel>>

cvars == <<flags, cpc, dest, headScripts, wrAppContainer, store, stores,
           ravenInstalled, renders, subscribed, installedRoutes,
           dndFlag, received>>

vars == <<env, spc, host, port, contentBase, listenCalls, pendingErr, listeners, log,
          buildHash, channel, flags, cpc, dest, headScripts, wrAppContainer,
          store, stores, ravenInstalled, renders, subscribed,
          installedRoutes, dndFlag, received>>

\* Number of recompilations explored.
MaxBuilds == 2

----------------------------------------------------------------------------
(* JavaScript values *)

Undefined == [set |-> FALSE, val |-> ""]

Str(s) == [set |-> TRUE, val |-> s]

\* JavaScript truthiness of an optional string: undefined and "" are falsy.
Truthy(v) == v.set /\ v.val # ""

UndefinedChars == [set |-> FALSE, val |-> <<>>]

Chars(s) == [set |-> TRUE, val |-> s]

\* A Number is NaN, an infinity, or a finite double.  A finite double that
\* is an integer below 10^9 in magnitude has kind "int" and value n (neg
\* tells -0 from 0); every other finite double has kind "dbl" and is
\* mant * 2^exp, negated when neg, with mant an odd natural number given
\* by its base-10^6 limbs, least significant first.
NaN == [kind |-> "nan", neg |-> FALSE, n |-> 0, mant |-> <<>>, exp |-> 0]

Num(k) == [kind |-> "int", neg |-> k < 0, n |-> k, mant |-> <<>>, exp |-> 0]

NegZero == [kind |-> "int", neg |-> TRUE, n |-> 0, mant |-> <<>>, exp |-> 0]

Inf(neg) == [kind |-> "inf", neg |-> neg, n |-> 0, mant |-> <<>>, exp |-> 0]

Dbl(neg, m, e) == [kind |-> "dbl", neg |-> neg, n |-> 0, mant |-> m, exp |-> e]

Zero(neg) == IF neg THEN NegZero ELSE Num(0)

Digits == {"0", "1", "2", "3", "4", "5", "6", "7", "8", "9"}

\* Value of a digit of a decimal, hexadecimal, octal or binary literal.
DigitVal(c) ==
    CASE c = "0" -> 0 [] c = "1" -> 1 [] c = "2" -> 2 [] c = "3" -> 3
      [] c = "4" -> 4 [] c = "5" -> 5 [] c = "6" -> 6 [] c = "7" -> 7
      [] c = "8" -> 8 [] c = "9" -> 9
      [] c \in {"a", "A"} -> 10 [] c \in {"b", "B"} -> 11
      [] c \in {"c", "C"} -> 12 [] c \in {"d", "D"} -> 13
      [] c \in {"e", "E"} -> 14 [] c \in {"f", "F"} -> 15

\* The digits of a literal of radix r.
RadixDigits(r) ==
    CASE r = 2 -> {"0", "1"}
      [] r = 8 -> {"0", "1", "2", "3", "4", "5", "6", "7"}
      [] r = 10 -> Digits
      [] r = 16 -> Digits \cup {"a", "b", "c", "d", "e", "f",
                                "A", "B", "C", "D", "E", "F"}

\* The characters Number() strips from both ends (StrWhiteSpaceChar): the
\* blank is itself, every other one is named by its code point.
WhiteSpace ==
    {" ", "U+0009", "U+000A", "U+000B", "U+000C", "U+000D", "U+00A0",
     "U+1680", "U+2000", "U+2001", "U+2002", "U+2003", "U+2004", "U+2005",
     "U+2006", "U+2007", "U+2008", "U+2009", "U+200A", "U+2028", "U+2029",
     "U+202F", "U+205F", "U+3000", "U+FEFF"}

MaxOf(S) == CHOOSE i \in S : \A j \in S : j <= i

\* Index of the first character of s that is in cs, 0 when there is none.
FirstIndex(s, cs) ==
    IF \A i \in 1..Len(s) : s[i] \notin cs THEN 0
    ELSE CHOOSE i \in 1..Len(s) :
            s[i] \in cs /\ \A j \in 1..(i - 1) : s[j] \notin cs

\* Index of the first character of s that is not in cs, 0 when there is
\* none.
FirstOutside(s, cs) ==
    IF \A i \in 1..Len(s) : s[i] \in cs THEN 0
    ELSE CHOOSE i \in 1..Len(s) :
            s[i] \notin cs /\ \A j \in 1..(i - 1) : s[j] \in cs

\* Index of the last character of s that is not in cs, 0 when there is
\* none.
LastOutside(s, cs) ==
    IF \A i \in 1..Len(s) : s[i] \in cs THEN 0
    ELSE CHOOSE i \in 1..Len(s) :
            s[i] \notin cs /\ \A j \in (i + 1)..Len(s) : s[j] \in cs

\* s without the white space at its two ends.
Trim(s) ==
    IF FirstOutside(s, WhiteSpace) = 0 THEN <<>>
    ELSE SubSeq(s, FirstOutside(s, WhiteSpace), LastOutside(s, WhiteSpace))

\* Value of a short digit string (it must fit an integer of the checker).
RECURSIVE DecimalValueUpTo(_, _)
DecimalValueUpTo(s, k) ==
    IF k = 0 THEN 0 ELSE 10 * DecimalValueUpTo(s, k - 1) + DigitVal(s[k])

DecimalValue(s) == DecimalValueUpTo(s, Len(s))

AllDigitsOf(s, r) == s # <<>> /\ \A i \in 1..Len(s) : s[i] \in RadixDigits(r)

AllDigits(s) == AllDigitsOf(s, 10)

StripLeadingZeros(s) ==
    IF FirstOutside(s, {"0"}) = 0 THEN <<>>
    ELSE SubSeq(s, FirstOutside(s, {"0"}), Len(s))

StripTrailingZeros(s) ==
    IF LastOutside(s, {"0"}) = 0 THEN <<>>
    ELSE SubSeq(s, 1, LastOutside(s, {"0"}))

----------------------------------------------------------------------------
(* Natural numbers of any size, as base-10^6 limbs, least significant     *)
(* first and without a zero top limb; 0 is the empty sequence.            *)

LimbDigits == 6

LimbBase == 1000000

BigNorm(a) ==
    IF \A i \in 1..Len(a) : a[i] = 0 THEN <<>>
    ELSE SubSeq(a, 1, MaxOf({i \in 1..Len(a) : a[i] # 0}))

\* The number written by the decimal digit string cs.
BigFromChars(cs) ==
    BigNorm([i \in 1..((Len(cs) + LimbDigits - 1) \div LimbDigits) |->
        DecimalValue(SubSeq(cs,
                            IF Len(cs) - LimbDigits * i + 1 < 1 THEN 1
                            ELSE Len(cs) - LimbDigits * i + 1,
                            Len(cs) - LimbDigits * (i - 1)))])

\* The natural number k.
BigFromInt(k) == BigNorm(<<k % LimbBase, k \div LimbBase>>)

\* The value of a number of at most two limbs.
BigToInt(a) ==
    IF a = <<>> THEN 0
    ELSE IF Len(a) = 1 THEN a[1]
    ELSE a[1] + LimbBase * a[2]

BigIsOdd(a) == a # <<>> /\ a[1] % 2 = 1

\* 2 * a: the carry into a limb depends on the limb below only.
BigDouble(a) ==
    BigNorm([i \in 1..(Len(a) + 1) |->
        ((IF i <= Len(a) THEN 2 * a[i] ELSE 0)
         + (IF i > 1 /\ 2 * a[i - 1] >= LimbBase THEN 1 ELSE 0)) % LimbBase])

\* a \div 2.
BigHalve(a) ==
    BigNorm([i \in 1..Len(a) |->
        a[i] \div 2
        + (IF i < Len(a) /\ a[i + 1] % 2 = 1 THEN LimbBase \div 2 ELSE 0)])

\* -1, 0 or 1 as a < b, a = b or a > b.
\* The largest index of a set of limb indexes, 0 when it is empty: the
\* limb that decides a comparison, a carry or a borrow.
Decider(low) == IF low = {} THEN 0 ELSE MaxOf(low)

CmpAt(a, b, j) == IF j = 0 THEN 0 ELSE IF a[j] < b[j] THEN -1 ELSE 1

BigCmp(a, b) ==
    IF Len(a) # Len(b) THEN (IF Len(a) < Len(b) THEN -1 ELSE 1)
    ELSE CmpAt(a, b, Decider({i \in 1..Len(a) : a[i] # b[i]}))

\* a with zero limbs added up to length n.
BigPad(a, n) == [i \in 1..n |-> IF i <= Len(a) THEN a[i] ELSE 0]

\* The carry into limb i of the limb sums s: it comes from the nearest
\* limb below whose sum is not LimbBase - 1.
CarryAt(s, j) == IF j # 0 /\ s[j] >= LimbBase THEN 1 ELSE 0

CarryInto(s, i) == CarryAt(s, Decider({j \in 1..(i - 1) : s[j] # LimbBase - 1}))

SumLimbs(s) == BigNorm([i \in 1..Len(s) |-> (s[i] + CarryInto(s, i)) % LimbBase])

AddPadded(x, y) == SumLimbs([i \in 1..Len(x) |-> x[i] + y[i]])

\* a + b.
BigAdd(a, b) ==
    AddPadded(BigPad(a, (IF Len(a) > Len(b) THEN Len(a) ELSE Len(b)) + 1),
              BigPad(b, (IF Len(a) > Len(b) THEN Len(a) ELSE Len(b)) + 1))

\* The borrow into limb i of x - y: it comes from the nearest limb below
\* where x and y differ.
BorrowAt(x, y, j) == IF j # 0 /\ x[j] < y[j] THEN 1 ELSE 0

BorrowInto(x, y, i) == BorrowAt(x, y, Decider({j \in 1..(i - 1) : x[j] # y[j]}))

SubPadded(x, y) ==
    BigNorm([i \in 1..Len(x) |->
                (x[i] - y[i] - BorrowInto(x, y, i) + LimbBase) % LimbBase])

\* a - b for a >= b.
BigSub(a, b) == SubPadded(a, BigPad(b, Len(a)))

\* Steps one recursion runs; longer loops nest two recursions.
LoopChunk == 32

RECURSIVE BigShiftChunk(_, _)
BigShiftChunk(a, k) ==
    IF k = 0 \/ a = <<>> THEN a ELSE BigShiftChunk(BigDouble(a), k - 1)

\* a * 2^k.
RECURSIVE BigShift(_, _)
BigShift(a, k) ==
    IF k <= LoopChunk \/ a = <<>> THEN BigShiftChunk(a, k)
    ELSE BigShift(BigShiftChunk(a, LoopChunk), k - LoopChunk)

----------------------------------------------------------------------------
(* Rounding a positive rational a/b to the nearest double, ties to even *)

\* st is [a, b, e], standing for (a/b) * 2^e; it is scaled when
\* b <= a < 2b.
Scaled(st) == BigCmp(st.a, st.b) >= 0 /\ BigCmp(st.a, BigDouble(st.b)) < 0

\* One step towards b <= a < 2b, keeping (a/b) * 2^e.
ScaleStep(st) ==
    IF BigCmp(st.a, st.b) < 0
    THEN [a |-> BigDouble(st.a), b |-> st.b, e |-> st.e - 1]
    ELSE [a |-> st.a, b |-> BigDouble(st.b), e |-> st.e + 1]

RECURSIVE ScaleChunk(_, _)
ScaleChunk(st, k) ==
    IF k = 0 \/ Scaled(st) THEN st ELSE ScaleChunk(ScaleStep(st), k - 1)

\* The scaling of st, in at most k * LoopChunk steps.
RECURSIVE Scale(_, _)
Scale(st, k) ==
    IF k = 0 \/ Scaled(st) THEN st ELSE Scale(ScaleChunk(st, LoopChunk), k - 1)

\* Bits of the significand of a double.
SignificandBits == 53

\* Binary exponent of the largest doubles.
MaxBinaryExponent == 1023

\* Binary exponent of the unit of the subnormal doubles.
MinUnitExponent == -1074

\* 2^53.
TwoTo53 == BigFromChars(<<"9", "0", "0", "7", "1", "9", "9", "2", "5", "4",
                          "7", "4", "0", "9", "9", "2">>)

\* One more bit of the quotient a/b (for a < 2b) appended to m; the
\* remainder stays in a, doubled.
QuotientStep(st, b) ==
    IF BigCmp(st.a, b) >= 0
    THEN [a |-> BigDouble(BigSub(st.a, b)), m |-> BigAdd(BigDouble(st.m), <<1>>)]
    ELSE [a |-> BigDouble(st.a), m |-> BigDouble(st.m)]

\* k more bits; once the remainder is 0 the bits left are zeros.
RECURSIVE QuotientBits(_, _, _)
QuotientBits(st, b, k) ==
    IF k = 0 THEN st
    ELSE IF st.a = <<>> THEN [a |-> <<>>, m |-> BigShift(st.m, k)]
    ELSE QuotientBits(QuotientStep(st, b), b, k - 1)

\* st is [m, e], standing for m * 2^e: the same number with m odd.
RECURSIVE OddPart(_)
OddPart(st) ==
    IF st.m = <<>> \/ BigIsOdd(st.m) THEN st
    ELSE OddPart([m |-> BigHalve(st.m), e |-> st.e + 1])

\* The largest magnitude of kind "int".
MaxSmall == 999999999

\* The Number of magnitude v = o.m * 2^o.e.
FromValue(neg, o, v) ==
    IF BigCmp(v, BigFromInt(MaxSmall)) <= 0
    THEN Num((IF neg THEN -1 ELSE 1) * BigToInt(v))
    ELSE Dbl(neg, o.m, o.e)

\* The Number of magnitude o.m * 2^o.e, o.m odd.
FromOdd(neg, o) ==
    IF o.e >= 0 /\ o.e < 30 THEN FromValue(neg, o, BigShift(o.m, o.e))
    ELSE Dbl(neg, o.m, o.e)

\* The Number that is the double m * 2^e with sign neg.
FromBinary(neg, m, e) ==
    IF m = <<>> THEN Zero(neg) ELSE FromOdd(neg, OddPart([m |-> m, e |-> e]))

\* The exponent of the last significand bit of a double of binary
\* exponent e: doubles below 2^-1022 are subnormal.
UnitExponent(e) ==
    IF e - (SignificandBits - 1) < MinUnitExponent THEN MinUnitExponent
    ELSE e - (SignificandBits - 1)

\* The quotient q.m rounded by its remainder q.a, ties to even.
RoundedQuotient(q, b) ==
    IF BigCmp(q.a, b) > 0 \/ (BigCmp(q.a, b) = 0 /\ BigIsOdd(q.m))
    THEN BigAdd(q.m, <<1>>) ELSE q.m

\* The double of significand m and binary exponent e: an infinity when
\* rounding carried it past the largest double.
FromRounded(neg, m, e) ==
    IF e = MaxBinaryExponent /\ BigCmp(m, TwoTo53) = 0 THEN Inf(neg)
    ELSE FromBinary(neg, m, UnitExponent(e))

\* The double nearest to the scaled st, with sign neg.
RoundScaled(neg, st) ==
    IF st.e > MaxBinaryExponent THEN Inf(neg)
    ELSE IF st.e < MinUnitExponent - 1 THEN Zero(neg)
    ELSE FromRounded(neg,
            RoundedQuotient(QuotientBits([a |-> st.a, m |-> <<>>], st.b,
                                         st.e - UnitExponent(st.e) + 1),
                            st.b),
            st.e)

\* The double nearest to a/b (a, b > 0), ties to the even significand,
\* with sign neg: zero on underflow, an infinity on overflow.
RoundToDouble(neg, a, b) ==
    RoundScaled(neg, Scale([a |-> a, b |-> b, e |-> 0], 2 * LoopChunk))

----------------------------------------------------------------------------
(* Number(string) *)

\* Decimal exponents at and beyond which every literal is an infinity or
\* a zero: 10^309 exceeds the largest double, 10^-324 is below half the
\* smallest.
InfinityExponent == 310

ZeroExponent == -324

Zeros(k) == [i \in 1..k |-> "0"]

\* An integer of any size is [neg, mag]: the magnitude mag, negated when
\* neg.  The integer k.
SignedFromInt(k) ==
    [neg |-> k < 0, mag |-> BigFromInt(IF k < 0 THEN 0 - k ELSE k)]

\* x + y.
SignedAdd(x, y) ==
    IF x.neg = y.neg THEN [neg |-> x.neg, mag |-> BigAdd(x.mag, y.mag)]
    ELSE IF BigCmp(x.mag, y.mag) >= 0
         THEN [neg |-> x.neg, mag |-> BigSub(x.mag, y.mag)]
         ELSE [neg |-> y.neg, mag |-> BigSub(y.mag, x.mag)]

\* The value of x, of small magnitude.
SignedToInt(x) == IF x.neg THEN 0 - BigToInt(x.mag) ELSE BigToInt(x.mag)

\* The Number denoted by the decimal 0.d * 10^x with sign neg, d without
\* leading or trailing zeros and not empty, ZeroExponent < x <
\* InfinityExponent.
FromScaled(neg, d, x) ==
    IF x >= Len(d)
    THEN RoundToDouble(neg, BigFromChars(d \o Zeros(x - Len(d))), <<1>>)
    ELSE RoundToDouble(neg, BigFromChars(d),
                       BigFromChars(<<"1">> \o Zeros(Len(d) - x)))

\* Significant digits that decide the rounding of a decimal: a double, and
\* the midpoint of two doubles, has at most 767 of them.
DecidingDigits == 800

\* d cut to its deciding digits: the digits beyond them matter only by
\* not being all zeros.
Decisive(d) ==
    IF Len(d) > DecidingDigits THEN SubSeq(d, 1, DecidingDigits) \o <<"1">>
    ELSE d

\* The same for any d without leading or trailing zeros and any integer
\* x: from 10^309 on the literal is above every double, below 10^-324 it
\* is under half the smallest one.
FromSignificant(neg, d, x) ==
    IF d = <<>> THEN Zero(neg)
    ELSE IF ~x.neg /\ BigCmp(x.mag, BigFromInt(InfinityExponent)) >= 0
         THEN Inf(neg)
    ELSE IF x.neg /\ BigCmp(x.mag, BigFromInt(0 - ZeroExponent)) >= 0
         THEN Zero(neg)
    ELSE FromScaled(neg, Decisive(d), SignedToInt(x))

\* The Number denoted by the digits ds, the decimal point standing after
\* the first `point' of them, times 10^ex, with sign neg.
FromDecimal(neg, ds, point, ex) ==
    FromSignificant(neg, StripTrailingZeros(StripLeadingZeros(ds)),
                    SignedAdd(SignedFromInt(point - (Len(ds) - Len(StripLeadingZeros(ds)))),
                              ex))

\* An optional sign followed by decimal digits.
IsSignedDigits(s) ==
    \/ AllDigits(s)
    \/ s # <<>> /\ Head(s) \in {"+", "-"} /\ AllDigits(Tail(s))

\* The digits of an exponent part, without its sign.
ExponentDigits(ex) == IF Head(ex) \in {"+", "-"} THEN Tail(ex) ELSE ex

\* The integer an exponent part denotes; no exponent part is 0.
ExponentValue(ex) ==
    IF ex = <<>> THEN SignedFromInt(0)
    ELSE [neg |-> Head(ex) = "-",
          mag |-> BigFromChars(StripLeadingZeros(ExponentDigits(ex)))]

\* An unsigned decimal literal: digits, an optional point, an optional
\* exponent part; at least one digit before the exponent.
UnsignedDecimal(neg, b) ==
    LET ei   == FirstIndex(b, {"e", "E"})
        mant == IF ei = 0 THEN b ELSE SubSeq(b, 1, ei - 1)
        ex   == IF ei = 0 THEN <<>> ELSE SubSeq(b, ei + 1, Len(b))
        pi   == FirstIndex(mant, {"."})
        ip   == IF pi = 0 THEN mant ELSE SubSeq(mant, 1, pi - 1)
        fp   == IF pi = 0 THEN <<>> ELSE SubSeq(mant, pi + 1, Len(mant))
    IN  IF /\ ei = 0 \/ IsSignedDigits(ex)
           /\ ip = <<>> \/ AllDigits(ip)
           /\ fp = <<>> \/ AllDigits(fp)
           /\ ip \o fp # <<>>
        THEN FromDecimal(neg, ip \o fp, Len(ip), ExponentValue(ex))
        ELSE NaN

InfinityChars == <<"I", "n", "f", "i", "n", "i", "t", "y">>

\* The radix a literal's prefix announces, 0 when it has no such prefix.
PrefixRadix(t) ==
    IF Len(t) >= 2 /\ t[1] = "0"
    THEN CASE t[2] \in {"x", "X"} -> 16
           [] t[2] \in {"o", "O"} -> 8
           [] t[2] \in {"b", "B"} -> 2
           [] OTHER -> 0
    ELSE 0

\* Bits one digit of radix r stands for.
RadixBits(r) == CASE r = 2 -> 1 [] r = 8 -> 3 [] r = 16 -> 4

\* st is [acc, i]: the value of the digits of s before the i-th.  One
\* more digit.
RadixStep(st, s, r) ==
    [acc |-> BigAdd(BigShift(st.acc, RadixBits(r)), BigFromInt(DigitVal(s[st.i]))),
     i   |-> st.i + 1]

RECURSIVE RadixChunk(_, _, _, _)
RadixChunk(st, s, r, k) ==
    IF k = 0 \/ st.i > Len(s) THEN st
    ELSE RadixChunk(RadixStep(st, s, r), s, r, k - 1)

\* The value of the digit string s of radix r.
RECURSIVE RadixBig(_, _, _)
RadixBig(st, s, r) ==
    IF st.i > Len(s) THEN st.acc
    ELSE RadixBig(RadixChunk(st, s, r, LoopChunk), s, r)

\* Digits of radix r after which a literal exceeds every double.
MaxRadixDigits(r) == (MaxBinaryExponent + 1) \div RadixBits(r) + 1

\* The Number denoted by the digits ds of a 0x, 0o or 0b literal.
FromRadixDigits(d, r) ==
    IF d = <<>> THEN Num(0)
    ELSE IF Len(d) > MaxRadixDigits(r) THEN Inf(FALSE)
    ELSE RoundToDouble(FALSE, RadixBig([acc |-> <<>>, i |-> 1], d, r), <<1>>)

FromRadix(ds, r) == FromRadixDigits(StripLeadingZeros(ds), r)

\* Number(string): white space is trimmed from both ends; the empty
\* string is 0; 0x, 0o and 0b literals (unsigned) are their value; an
\* optionally signed Infinity or decimal literal with optional fraction
\* and exponent is its value; anything else is NaN.  Every value is
\* rounded to the nearest double.
StringToNumber(s) ==
    LET t    == Trim(s)
        sign == t # <<>> /\ Head(t) \in {"+", "-"}
        neg  == t # <<>> /\ Head(t) = "-"
        body == IF sign THEN Tail(t) ELSE t
    IN  IF t = <<>> THEN Num(0)
        ELSE IF PrefixRadix(t) # 0
             THEN IF AllDigitsOf(SubSeq(t, 3, Len(t)), PrefixRadix(t))
                  THEN FromRadix(SubSeq(t, 3, Len(t)), PrefixRadix(t))
                  ELSE NaN
        ELSE IF body = InfinityChars THEN Inf(neg)
        ELSE UnsignedDecimal(neg, body)

\* Number(process.env.X): Number(undefined) is NaN.
ToNumber(v) == IF v.set THEN StringToNumber(v.val) ELSE NaN

\* v + 1 or -v + 1 for an integer v >= 10^9.
AddOneToInteger(neg, v) ==
    RoundToDouble(neg, IF neg THEN BigSub(v, <<1>>) ELSE BigAdd(v, <<1>>), <<1>>)

\* m/p + 1 or -m/p + 1 for a fraction m/p that is no integer.
AddOneToFraction(neg, m, p) ==
    IF ~neg THEN RoundToDouble(FALSE, BigAdd(m, p), p)
    ELSE IF BigCmp(m, p) > 0 THEN RoundToDouble(TRUE, BigSub(m, p), p)
    ELSE RoundToDouble(FALSE, BigSub(p, m), p)

\* a + 1 on Numbers, rounded to the nearest double: NaN and the
\* infinities absorb.
JsAddOne(a) ==
    CASE a.kind = "nan" -> NaN
      [] a.kind = "inf" -> a
      [] a.kind = "int" ->
            IF a.n + 1 <= MaxSmall THEN Num(a.n + 1)
            ELSE RoundToDouble(FALSE, BigFromInt(a.n + 1), <<1>>)
      [] a.kind = "dbl" ->
            IF a.exp >= 0 THEN AddOneToInteger(a.neg, BigShift(a.mant, a.exp))
            ELSE AddOneToFraction(a.neg, a.mant, BigShift(<<1>>, 0 - a.exp))

\* a || d on a Number: NaN, 0 and -0 are falsy.
JsOrNumber(a, d) == IF a.kind = "nan" \/ (a.kind = "int" /\ a.n = 0) THEN Num(d) ELSE a

----------------------------------------------------------------------------
(* Dev Server *)

DefaultHost == "127.0.0.1"

DefaultPort == 8096

AppHosts == {Undefined, Str(""), Str("10.0.0.5")}

FrontendPorts ==
    { UndefinedChars,
      Chars(<<>>),
      Chars(<<"-", "1">>),
      Chars(<<"U+0009", "7", "9", "U+000A">>),
      Chars(<<"8", "0", "9", "5", ".", "0", "0", "0", "0", "0", "0", "0", "0",
              "0", "0", "0", "0", "0", "0", "0", "0", "0", "0", "1">>),
      Chars(<<"6", "5", "5", "3", "5">>),
      Chars(<<"a", "b", "c">>),
      Chars(<<"1", ".", "5">>) }

\* const host = process.env.APP_HOST || '127.0.0.1'
ResolveHost(v) == IF Truthy(v) THEN v.val ELSE DefaultHost

\* const port = (Number(process.env.FRONTEND_PORT) + 1) || 8096
ResolvePort(v) == JsOrNumber(JsAddOne(ToNumber(v)), DefaultPort)

\* Addresses a listener is bound to when listen() is given no host.
UnspecifiedAddresses == {"::", "0.0.0.0"}

\* The address argument of app.listen(port, callback): none is passed, so
\* the listener binds the unspecified address.
ListenAddresses(h) == UnspecifiedAddresses

\* What the operating system may answer to a bind of port p.
BindOutcomes(p) ==
    IF ~(p.kind = "int" /\ p.n \in 0..65535) THEN {"ERR_SOCKET_BAD_PORT"}
    ELSE {"ok", "EADDRINUSE"} \cup (IF p.n < 1024 THEN {"EACCES"} ELSE {})

NoError == ""

\* A callback that prints the configured FRONTEND_PORT instead of port.
ListenCallbackEnvPort(err, p) ==
    IF err # NoError
    THEN <<[stream |-> "stderr", kind |-> "error", port |-> p, err |-> err]>>
    ELSE <<[stream |-> "stdout", kind |-> "listening", port |-> Num(p.n - 1), err |-> NoError]>>

\* A callback that never looks at err.
ListenCallbackIgnoresErr(err, p) ==
    <<[stream |-> "stdout", kind |-> "listening", port |-> p, err |-> NoError]>>

\* The callback given to app.listen: (err) => err ? console.error(err)
\* : console.info('==> ... listening on port %s', port)
ListenCallback(err, p) ==
    IF err # NoError
    THEN <<[stream |-> "stderr", kind |-> "error", port |-> p, err |-> err]>>
    ELSE <<[stream |-> "stdout", kind |-> "listening", port |-> p, err |-> NoError]>>

\* An error nobody handles: the runtime writes it to stderr and exits.
UncaughtException(err, p) ==
    <<[stream |-> "stderr", kind |-> "error", port |-> p, err |-> err]>>

\* Lines 12-13: host and port from the environment.
ResolveEnv ==
    /\ spc = "start"
    /\ host' = ResolveHost(env.APP_HOST)
    /\ port' = ResolvePort(env.FRONTEND_PORT)
    /\ spc' = "resolved"
    /\ UNCHANGED <<env, contentBase, listenCalls, pendingErr, listeners, log,
                   buildHash, channel>>
    /\ UNCHANGED cvars

\* Lines 34-35: the dev and hot middleware are mounted on the app; the
\* compiler starts watching.
UseMiddleware ==
    /\ spc = "resolved"
    /\ contentBase' = [host |-> host, port |-> port]
    /\ spc' = "wired"
    /\ UNCHANGED <<env, host, port, listenCalls, pendingErr, listeners, log,
                   buildHash, channel>>
    /\ UNCHANGED cvars

\* Line 36, bind succeeds: app.listen returns with the listener bound,
\* 'listening' is pending.
ListenOk ==
    /\ spc = "wired"
    /\ "ok" \in BindOutcomes(port)
    /\ \E a \in ListenAddresses(host) :
          listeners' = listeners \cup {[address |-> a, port |-> port]}
    /\ listenCalls' = listenCalls + 1
    /\ spc' = "bound"
    /\ UNCHANGED <<env, host, port, contentBase, pendingErr, log, buildHash, channel>>
    /\ UNCHANGED cvars

\* Lines 36-42: the 'listening' event runs the callback with no error.
ListeningCallback ==
    /\ spc = "bound"
    /\ log' = log \o ListenCallback(NoError, port)
    /\ spc' = "up"
    /\ UNCHANGED <<env, host, port, contentBase, listenCalls, pendingErr,
                   listeners, buildHash, channel>>
    /\ UNCHANGED cvars

\* Line 36, the port is no integer in 0..65535: app.listen throws, the
\* exception is uncaught and the process exits.
ListenThrows ==
    /\ spc = "wired"
    /\ "ERR_SOCKET_BAD_PORT" \in BindOutcomes(port)
    /\ log' = log \o UncaughtException("ERR_SOCKET_BAD_PORT", port)
    /\ listenCalls' = listenCalls + 1
    /\ spc' = "exited"
    /\ UNCHANGED <<env, host, port, contentBase, pendingErr, listeners,
                   buildHash, channel>>
    /\ UNCHANGED cvars

\* Line 36, the bind fails: app.listen returns with no listener and
\* nothing logged; the error is emitted on a later tick.
ListenFails ==
    /\ spc = "wired"
    /\ \E e \in BindOutcomes(port) \ {"ok", "ERR_SOCKET_BAD_PORT"} :
          pendingErr' = e
    /\ listenCalls' = listenCalls + 1
    /\ spc' = "failing"
    /\ UNCHANGED <<env, host, port, contentBase, listeners, log, buildHash, channel>>
    /\ UNCHANGED cvars

\* The pending 'error' event when the callback is not an 'error' listener
\* (Express 4): the error is uncaught and the process exits.
ListenErrorUncaught ==
    /\ spc = "failing"
    /\ log' = log \o UncaughtException(pendingErr, port)
    /\ pendingErr' = NoError
    /\ spc' = "exited"
    /\ UNCHANGED <<env, host, port, contentBase, listenCalls, listeners,
                   buildHash, channel>>
    /\ UNCHANGED cvars

\* Lines 36-42, the pending 'error' event when the callback is also the
\* 'error' listener (Express 5): the callback runs with the error and the
\* process lives on without a listener.
ListenErrorCallback ==
    /\ spc = "failing"
    /\ log' = log \o ListenCallback(pendingErr, port)
    /\ pendingErr' = NoError
    /\ spc' = "failed"
    /\ UNCHANGED <<env, host, port, contentBase, listenCalls, listeners,
                   buildHash, channel>>
    /\ UNCHANGED cvars

ServerInit ==
    /\ env \in [APP_HOST : AppHosts, FRONTEND_PORT : FrontendPorts]
    /\ spc = "start"
    /\ host = ""
    /\ port = Num(0)
    /\ contentBase = [host |-> "", port |-> Num(0)]
    /\ listenCalls = 0
    /\ pendingErr = NoError
    /\ listeners = {}
    /\ log = <<>>
    /\ buildHash = 0
    /\ channel = <<>>

----------------------------------------------------------------------------
(* Compiler and streaming channel *)

BaseRouteModule == "./baseRoute"

OtherModule == "./components/other"

\* Route-table contents a build of ./baseRoute may produce.
RouteContents == {"r0", "r1"}

InitialBaseContent == "r0"

\* A recompilation, possible while the process lives and the compiler
\* watches: the hot middleware pushes the changed module and the new build
\* hash to the connected page, which takes a listener and a page with a
\* live-update channel.
Rebuild ==
    /\ spc \in {"wired", "failing", "failed", "bound", "up"}
    /\ buildHash < MaxBuilds
    /\ buildHash' = buildHash + 1
    /\ \E n \in {[module |-> BaseRouteModule, hash |-> buildHash + 1, routes |-> r] :
                    r \in RouteContents}
             \cup {[module |-> OtherModule, hash |-> buildHash + 1, routes |-> ""]} :
          channel' = IF flags.hot /\ listeners # {}
                     THEN Append(channel, n) ELSE channel
    /\ UNCHANGED <<env, spc, host, port, contentBase, listenCalls, pendingErr,
                   listeners, log>>
    /\ UNCHANGED cvars

----------------------------------------------------------------------------
(* Client Bootstrap *)

RavenConfigs == {Undefined, Str(""), Str("https://key@sentry.example/1")}

PageData == {Undefined, Str("{archive}")}

BundleUrl == "http://127.0.0.1:8096/static/main-ce6d544a4ec204f36b27.js"

MountId == "app"

NoNode == "null"

NoStore == [id |-> 0, seed |-> Undefined]

\* A route table: its variant and the revision of its content.
Table(v, c) == [variant |-> v, content |-> c]

\* const client = new ApiClient()
client == "ApiClient#1"

\* A value bound to a route module whose default export is the table t.
\* With esModule FALSE the value is t itself; with esModule TRUE it is the
\* module's namespace object { __esModule: true, default: t }.
\* import x from m binds the default export, so always t.
ImportDefault(t) == [esModule |-> FALSE, default |-> t]

\* require(m) returns the exports object of m: the table when the module
\* assigns it to module.exports, the namespace object when the module is
\* an ES module (es).
Require(t, es) == [esModule |-> es, default |-> t]

\* import baseRoute from './baseRoute'
baseRoute == ImportDefault(Table("base", InitialBaseContent))

\* require('./playerRoutes')
playerRoutes(es) == Require(Table("player", "p0"), es)

\* __PLAYER__ ? require('./playerRoutes') : baseRoute
InitialRoutes(player, es) == IF player THEN playerRoutes(es) ELSE baseRoute

\* require('./baseRoute') inside the accept callback: the module as it is
\* in the registry after the update was applied.
RequireBaseRoute(installed, es) == Require(Table("base", installed), es)

\* if (config.ravenConfig)
ShouldInstallRavenAlways(cfg) == TRUE

ShouldInstallRaven(cfg) == Truthy(cfg)

\* if (module.hot && !__DESKTOP__)
ShouldSubscribeInverted(hot, desktop) == hot /\ desktop

ShouldSubscribeAnyBuild(hot, desktop) == hot

ShouldSubscribe(hot, desktop) == hot /\ ~desktop

\* renderApp: ReactDOM.hydrate(<AppContainer><Provider store={store}>
\* <Root {...renderProps} /></Provider></AppContainer>, dest).  The call is
\* recorded; what the rendering library then does to the container is
\* outside this program.
RenderApp(renderProps) ==
    renders' = Append(renders, [props |-> renderProps, store |-> store,
                                target |-> dest])

\* Lines 20-27: the API client, the mount element, the injected script.
Boot ==
    /\ cpc = "load"
    /\ dest' = MountId
    /\ headScripts' = headScripts \cup {[src |-> BundleUrl, async |-> TRUE]}
    /\ wrAppContainer' = MountId
    /\ cpc' = "dom"
    /\ UNCHANGED <<flags, store, stores, ravenInstalled, renders,
                   subscribed, installedRoutes, dndFlag, received>>
    /\ UNCHANGED svars

\* Line 30: const store = createStore(client, window.__data).
CreateStore ==
    /\ cpc = "dom"
    /\ store' = [id |-> Cardinality(stores) + 1, seed |-> flags.data]
    /\ stores' = stores \cup {store'}
    /\ cpc' = "store"
    /\ UNCHANGED <<flags, dest, headScripts, wrAppContainer, ravenInstalled,
                   renders, subscribed, installedRoutes, dndFlag, received>>
    /\ UNCHANGED svars

\* Lines 33-35: Raven.config(config.ravenConfig).install() when configured.
ErrorReporting ==
    /\ cpc = "store"
    /\ ravenInstalled' = (ravenInstalled \/ ShouldInstallRaven(flags.ravenConfig))
    /\ cpc' = "raven"
    /\ UNCHANGED <<flags, dest, headScripts, wrAppContainer, store, stores,
                   renders, subscribed, installedRoutes, dndFlag, received>>
    /\ UNCHANGED svars

\* Line 49: the initial render.
InitialRender ==
    /\ cpc = "raven"
    /\ RenderApp([routes |-> InitialRoutes(flags.PLAYER, flags.esModules), client |-> client])
    /\ cpc' = "rendered"
    /\ UNCHANGED <<flags, dest, headScripts, wrAppContainer, store, stores,
                   ravenInstalled, subscribed, installedRoutes, dndFlag, received>>
    /\ UNCHANGED svars

\* Lines 51-60: module.hot.accept('./baseRoute', callback) when guarded in.
HotSubscribe ==
    /\ cpc = "rendered"
    /\ subscribed' = IF ShouldSubscribe(flags.hot, flags.DESKTOP)
                     THEN subscribed \cup {BaseRouteModule}
                     ELSE subscribed
    /\ cpc' = "mounted"
    /\ UNCHANGED <<flags, dest, headScripts, wrAppContainer, store, stores,
                   ravenInstalled, renders, installedRoutes, dndFlag, received>>
    /\ UNCHANGED svars

\* An accept callback that builds a store of its own for the re-render.
DeliverAcceptedNewStore ==
    /\ cpc = "mounted"
    /\ channel # <<>>
    /\ Head(channel).module \in subscribed
    /\ channel' = Tail(channel)
    /\ received' = Append(received, Head(channel))
    /\ installedRoutes' = Head(channel).routes
    /\ dndFlag' = "false"
    /\ stores' = stores \cup {[id |-> Cardinality(stores) + 1, seed |-> flags.data]}
    /\ renders' = Append(renders,
          [props |-> [routes |-> RequireBaseRoute(installedRoutes', flags.esModules), client |-> client],
           store |-> [id |-> Cardinality(stores) + 1, seed |-> flags.data],
           target |-> dest])
    /\ UNCHANGED <<flags, cpc, dest, headScripts, wrAppContainer, store,
                   ravenInstalled, subscribed>>
    /\ UNCHANGED <<env, spc, host, port, contentBase, listenCalls, pendingErr,
                   listeners, log, buildHash>>

\* Lines 52-59: a notification for an accepted module is delivered; the
\* update is applied and the accept callback runs to completion.
DeliverAccepted ==
    /\ cpc = "mounted"
    /\ channel # <<>>
    /\ Head(channel).module \in subscribed
    /\ channel' = Tail(channel)
    /\ received' = Append(received, Head(channel))
    /\ installedRoutes' = Head(channel).routes
    /\ dndFlag' = "false"
    /\ RenderApp([routes |-> RequireBaseRoute(installedRoutes', flags.esModules), client |-> client])
    /\ UNCHANGED <<flags, cpc, dest, headScripts, wrAppContainer, store, stores,
                   ravenInstalled, subscribed>>
    /\ UNCHANGED <<env, spc, host, port, contentBase, listenCalls, pendingErr,
                   listeners, log, buildHash>>

\* A notification for a module nobody accepted: no callback of client.js runs.
DeliverUnaccepted ==
    /\ cpc = "mounted"
    /\ channel # <<>>
    /\ Head(channel).module \notin subscribed
    /\ channel' = Tail(channel)
    /\ received' = Append(received, Head(channel))
    /\ UNCHANGED <<flags, cpc, dest, headScripts, wrAppContainer, store, stores,
                   ravenInstalled, renders, subscribed, installedRoutes,
                   dndFlag>>
    /\ UNCHANGED <<env, spc, host, port, contentBase, listenCalls, pendingErr,
                   listeners, log, buildHash>>

ClientInit ==
    /\ flags \in [PLAYER : BOOLEAN, DESKTOP : BOOLEAN, hot : BOOLEAN,
                  esModules : BOOLEAN, ravenConfig : RavenConfigs,
                  data : PageData]
    /\ cpc = "load"
    /\ dest = NoNode
    /\ headScripts = {}
    /\ wrAppContainer = NoNode
    /\ store = NoStore
    /\ stores = {}
    /\ ravenInstalled = FALSE
    /\ renders = <<>>
    /\ subscribed = {}
    /\ installedRoutes = InitialBaseContent
    /\ dndFlag = "undefined"
    /\ received = <<>>

----------------------------------------------------------------------------

Init == ServerInit /\ ClientInit

Next ==
    \/ ResolveEnv
    \/ UseMiddleware
    \/ ListenOk
    \/ ListeningCallback
    \/ ListenThrows
    \/ ListenFails
    \/ ListenErrorUncaught
    \/ ListenErrorCallback
    \/ Rebuild
    \/ Boot
    \/ CreateStore
    \/ ErrorReporting
    \/ InitialRender
    \/ HotSubscribe
    \/ DeliverAccepted
    \/ DeliverUnaccepted

Spec == Init /\ [][Next]_vars

----------------------------------------------------------------------------
(* Properties *)

\* Notifications for the route-definition module delivered to the page.
RouteNotifications == SelectSeq(received, LAMBDA n : n.module = BaseRouteModule)

\* Startup confirmations written to the log.
Confirmations == SelectSeq(log, LAMBDA e : e.kind = "listening")

\* Errors written to the log.
ErrorReports == SelectSeq(log, LAMBDA e : e.kind = "error" /\ e.stream = "stderr")

InitialRenderDone == cpc \in {"rendered", "mounted"}

\* C1: with the live-update channel active and the desktop flag clear,
\* after the initial render and N delivered route-module notifications
\* renderApp has been called exactly N+1 times, and the call made for the
\* i-th notification received the route table that notification
\* installed: the table of the routes it was given is the base table of
\* the notification's revision.
HotReloadRendersOncePerNotification ==
    (flags.hot /\ ~flags.DESKTOP /\ InitialRenderDone) =>
        /\ Len(renders) = 1 + Len(RouteNotifications)
        /\ \A i \in 1..Len(RouteNotifications) :
              /\ i + 1 <= Len(renders)
              /\ renders[i + 1].props.routes.default =
                    Table("base", RouteNotifications[i].routes)

\* Two route notifications with different tables were handled.
HotReloadTwoTablesRendered ==
    /\ flags.hot /\ ~flags.DESKTOP
    /\ Len(RouteNotifications) = 2
    /\ RouteNotifications[1].routes # RouteNotifications[2].routes
    /\ Len(renders) = 3

\* C2: a start sequence never binds more than one listener nor writes more
\* than one startup confirmation, and once the sequence has completed with
\* a successful bind there is exactly one listener and exactly one
\* confirmation, which prints the port the listener is bound to.
OneListenerOneConfirmation ==
    /\ Cardinality(listeners) <= 1
    /\ Len(Confirmations) <= 1
    /\ listenCalls <= 1
    /\ spc = "up" =>
          /\ Cardinality(listeners) = 1
          /\ Len(Confirmations) = 1
          /\ \A l \in listeners : l.port = port /\ Confirmations[1].port = l.port

\* The server is up on the port derived from FRONTEND_PORT=79, written
\* with a tab before it and a line end after it.
ServerUpOnDerivedPort ==
    /\ spc = "up"
    /\ env.FRONTEND_PORT = Chars(<<"U+0009", "7", "9", "U+000A">>)
    /\ port = Num(80)
    /\ Len(Confirmations) = 1

BindFailed == spc \in {"exited", "failed"}

\* C3: a failed bind never produces a listener or a startup confirmation;
\* once the failure has been delivered the log holds the error; listen is
\* never called a second time, and the failure is terminal: no later step
\* changes the log, the listeners or the number of listen calls.
BindFailureIsFatalAndLogged ==
    /\ []((spc = "failing" \/ BindFailed) =>
            /\ Len(Confirmations) = 0
            /\ listeners = {}
            /\ listenCalls = 1)
    /\ [](spc = "failing" => pendingErr # NoError)
    /\ [](BindFailed =>
            /\ Len(ErrorReports) = 1
            /\ ErrorReports[1].err # NoError)
    /\ [][(spc = "failing" => spc' \in {"failing", "exited", "failed"})
          /\ (BindFailed =>
                /\ spc' = spc
                /\ log' = log
                /\ listeners' = listeners
                /\ listenCalls' = listenCalls)]_vars

\* The port was in use and the callback received the error.
BindFailedPortInUse ==
    /\ spc = "failed"
    /\ Len(ErrorReports) = 1
    /\ ErrorReports[1].err = "EADDRINUSE"

\* A FRONTEND_PORT value the claim calls numeric: a string that is not
\* white space only and that Number() does not turn into NaN.
IsNumeric(v) ==
    /\ v.set
    /\ Trim(v.val) # <<>>
    /\ StringToNumber(v.val).kind # "nan"

\* C4: the port is FRONTEND_PORT + 1 for every numeric FRONTEND_PORT and
\* 8096 when FRONTEND_PORT is absent or non-numeric, the empty string
\* included.
PortIsEnvPlusOneOrDefault ==
    [][spc = "start" /\ spc' # "start" =>
          port' = IF IsNumeric(env.FRONTEND_PORT)
                  THEN JsAddOne(StringToNumber(env.FRONTEND_PORT.val))
                  ELSE Num(8096)]_vars

\* C5: host is APP_HOST, or 127.0.0.1 when APP_HOST is not set, and every
\* listener of the Dev Server is bound to that host.
ListenerBoundOnResolvedHost ==
    /\ spc # "start" =>
          host = IF env.APP_HOST.set /\ env.APP_HOST.val # ""
                 THEN env.APP_HOST.val ELSE "127.0.0.1"
    /\ \A l \in listeners : l.address = host

\* C6: with the desktop flag set no accept handler is ever installed and
\* renderApp is called exactly once, whatever notifications arrive.
DesktopNeverSubscribes ==
    flags.DESKTOP =>
        /\ subscribed = {}
        /\ Len(renders) <= 1
        /\ InitialRenderDone => Len(renders) = 1

\* A desktop build with a live channel received a route notification.
DesktopReceivedRouteNotification ==
    /\ flags.DESKTOP /\ flags.hot
    /\ cpc = "mounted"
    /\ Len(RouteNotifications) >= 1
    /\ Len(renders) = 1

\* C7: the global error handler is never installed without a configured
\* endpoint, and from the first renderApp call on it is installed exactly
\* when an endpoint is configured.
ErrorHandlerIffConfigured ==
    /\ ravenInstalled => Truthy(flags.ravenConfig)
    /\ Len(renders) >= 1 => (ravenInstalled <=> Truthy(flags.ravenConfig))

\* The bootstrap completed with no endpoint configured.
MountedWithoutEndpoint ==
    /\ ~Truthy(flags.ravenConfig)
    /\ cpc = "mounted"
    /\ Len(renders) >= 1
    /\ ~ravenInstalled

\* C8: at most one store is ever constructed, exactly one once line 30 has
\* run, and every renderApp call is given that store.
SingleStoreForEveryRender ==
    /\ Cardinality(stores) <= 1
    /\ cpc \notin {"load", "dom"} => stores = {store}
    /\ \A i \in 1..Len(renders) : renders[i].store = store /\ store \in stores

\* A hot reload re-rendered with the one store.
HotReloadRenderedWithStore ==
    /\ Len(renders) >= 2
    /\ Len(RouteNotifications) >= 1
    /\ Cardinality(stores) = 1

\* C10: the route table of the latest renderApp call is of the player
\* variant when the player flag is set and of the base variant otherwise.
RouteVariantFollowsPlayerFlag ==
    Len(renders) >= 1 =>
        renders[Len(renders)].props.routes.default.variant =
            IF flags.PLAYER THEN "player" ELSE "base"

====
